---- MODULE Spec2Model ----
(***************************************************************************)
(* Model of the diff-to-report pipeline of code-smells-agents:             *)
(*   scripts/filter_diff.py    parse_diff_sections, filter_diff            *)
(*   scripts/analyze_code.py   chunk_diff, analyze_with_llm,               *)
(*                             merge_chunk_results, main                   *)
(*   scripts/format_review.py  load_all_results, aggregate_violations,     *)
(*                             get_max_severity, extract_inline_comments,  *)
(*                             main (the summary file)                     *)
(* Each function is applied to inputs drawn from bounded sets:             *)
(*   SpecChunk, SpecGitChunk, SpecPlainChunk   chunk_diff                  *)
(*   SpecFilter   parse_diff_sections, then filter_diff                    *)
(*   SpecMerge    merge_chunk_results, then again on its result twice      *)
(*   SpecAnalyze  analyze_with_llm on one response of the endpoint         *)
(*   SpecRun      main of analyze_code.py, one call of client.query at a   *)
(*                time, then format_review's main on the file it wrote     *)
(*   SpecReport   format_review's main on a directory of result files      *)
(* Text is a sequence of one-character strings, so that splitting,         *)
(* joining, stripping, the header pattern, the code fences and the case of *)
(* letters are computed character by character, as the Python string      *)
(* operations do.  The markdown text of the review is left out.            *)
(***************************************************************************)
EXTENDS Integers, Sequences, FiniteSets, TLC

VARIABLES
    pc,                \* which operation has run
    diff_content,      \* the diff text handed to chunk_diff / filter_diff
    max_tokens,        \* chunk_diff's token budget
    chunks,            \* chunk_diff's return value
    sections,          \* parse_diff_sections' return value
    include_files,     \* filter_diff's include list
    exclude_patterns,  \* filter_diff's exclude patterns (a list, or None)
    filtered,          \* filter_diff's return value
    results,           \* the list handed to merge_chunk_results
    merged,            \* merge_chunk_results(results)
    remerged,          \* merge_chunk_results([merged, merged])
    responses,         \* the texts client.query has returned, one per call
    client,            \* whether main has created the DatabricksModelClient
    queries,           \* how many times client.query has been called
    asked,             \* the diffs client.query was called with, one per call
    output,            \* the result file main has written, or None
    loaded,            \* load_all_results' return value
    violations,        \* aggregate_violations' return value
    summary            \* the summary file format_review's main has written

\* the state of a run of analyze_code's main, beside diff_content, chunks and
\* results
runVars == <<responses, client, queries, asked, output>>

\* the state of a run of format_review's main
reportVars == <<loaded, violations, summary>>

vars == <<pc, diff_content, max_tokens, chunks, sections, include_files,
          exclude_patterns, filtered, results, merged, remerged, runVars,
          reportVars>>

----------------------------------------------------------------------------
(* Bounds of the model *)

MaxPieces == 3

MaxTokens == 10

MaxViolations == 2

MaxResults == 2

----------------------------------------------------------------------------
(* Python string operations, on sequences of characters *)

NL == "\n"

\* An optional value: None is the empty tuple, a value x that is there is <<x>>
None == <<>>

Some(x) == <<x>>

\* str.strip() / str.isspace(): the whitespace characters a diff can hold
IsSpace(c) == c \in {" ", NL, "\t", "\r"}

Min(S) == CHOOSE i \in S : \A j \in S : i <= j

\* str.find(sep): index of the leftmost occurrence of sep in s, 0 when absent
Find(s, sep) ==
    LET hits == {i \in 1..(Len(s) - Len(sep) + 1) :
                    s[i] = sep[1] /\ SubSeq(s, i, i + Len(sep) - 1) = sep}
    IN  IF hits = {} THEN 0 ELSE Min(hits)

\* str.split(sep): the pieces between the non-overlapping occurrences of sep,
\* found left to right; always at least one piece
RECURSIVE Split(_, _)
Split(s, sep) ==
    LET i == Find(s, sep)
    IN  IF i = 0 THEN <<s>>
        ELSE <<SubSeq(s, 1, i - 1)>> \o Split(SubSeq(s, i + Len(sep), Len(s)), sep)

\* sep.join(parts)
RECURSIVE Join(_, _)
Join(parts, sep) ==
    IF parts = <<>> THEN <<>>
    ELSE IF Len(parts) = 1 THEN parts[1]
    ELSE parts[1] \o sep \o Join(Tail(parts), sep)

\* "".join(parts)
Concat(parts) == Join(parts, <<>>)

\* not s.strip(): s is empty or whitespace only
IsBlank(s) == \A i \in 1..Len(s) : IsSpace(s[i])

\* s.lstrip('/')
RECURSIVE LStripSlash(_)
LStripSlash(s) ==
    IF s # <<>> /\ Head(s) = "/" THEN LStripSlash(Tail(s)) ELSE s

\* needle in s (substring test); also re.search of a literal pattern
Contains(s, needle) == needle = <<>> \/ Find(s, needle) # 0

----------------------------------------------------------------------------
(* chunk_diff, scripts/analyze_code.py *)

\* 'diff --git '
GitMarker == <<"d", "i", "f", "f", " ", "-", "-", "g", "i", "t", " ">>

\* max_chars = max_tokens * 4
max_chars(mt) == mt * 4

\* len(diff_content) <= max_chars: the diff is returned as one chunk
PassThroughLt(diff, mt) == Len(diff) < max_chars(mt)

PassThrough(diff, mt) == Len(diff) <= max_chars(mt)

\* section = ('diff --git ' + file_diff) if i > 0 else file_diff
SectionOf(file_diffs, i) ==
    IF i > 1 THEN GitMarker \o file_diffs[i] ELSE file_diffs[i]

\* if i == 0 and not file_diff.strip(): continue
Skipped(file_diffs, i) == i = 1 /\ IsBlank(file_diffs[i])

\* current_size + section_size > max_chars and current_chunk
MustFlushNoAdd(current_size, section_size, current_chunk, mt) ==
    current_size > max_chars(mt) /\ current_chunk # <<>>

MustFlush(current_size, section_size, current_chunk, mt) ==
    current_size + section_size > max_chars(mt) /\ current_chunk # <<>>

\* The loop over file_diffs from index i on: the lists of sections
\* (current_chunk) in the order they are closed, the last one included.
RECURSIVE PackFrom(_, _, _, _, _)
PackFrom(file_diffs, i, current_chunk, current_size, mt) ==
    IF i > Len(file_diffs)
    THEN IF current_chunk # <<>> THEN <<current_chunk>> ELSE <<>>
    ELSE IF Skipped(file_diffs, i)
    THEN PackFrom(file_diffs, i + 1, current_chunk, current_size, mt)
    ELSE LET section == SectionOf(file_diffs, i)
             section_size == Len(section)
         IN  IF MustFlush(current_size, section_size, current_chunk, mt)
             THEN <<current_chunk>>
                  \o PackFrom(file_diffs, i + 1, <<section>>, section_size, mt)
             ELSE PackFrom(file_diffs, i + 1, Append(current_chunk, section),
                           current_size + section_size, mt)

\* the sections packed into each chunk
chunk_groups(diff, mt) ==
    IF PassThrough(diff, mt) THEN << <<diff>> >>
    ELSE PackFrom(Split(diff, GitMarker), 1, <<>>, 0, mt)

\* chunks.append('\n'.join(current_chunk))
chunk_diff(diff, mt) ==
    LET groups == chunk_groups(diff, mt)
    IN  [k \in 1..Len(groups) |-> Join(groups[k], <<NL>>)]

----------------------------------------------------------------------------
(* parse_diff_sections and filter_diff, scripts/filter_diff.py *)

\* 'diff --git a/'
HeaderPrefix == GitMarker \o <<"a", "/">>

\* the positions where ' b/' can end the lazy group (.+?) of
\* ^diff --git a/(.+?) b/(.+)$ : after at least one character of the old
\* path, and with at least one character left for the new path
HeaderCuts(line) ==
    {j \in (Len(HeaderPrefix) + 2)..(Len(line) - 3) :
        SubSeq(line, j, j + 2) = <<" ", "b", "/">>}

\* re.match(r'^diff --git a/(.+?) b/(.+)$', line) succeeds
IsHeader(line) ==
    /\ Len(line) >= Len(HeaderPrefix)
    /\ SubSeq(line, 1, Len(HeaderPrefix)) = HeaderPrefix
    /\ HeaderCuts(line) # {}

\* match.group(2): the 'b' path, everything after the first cut
HeaderPath(line) == SubSeq(line, Min(HeaderCuts(line)) + 3, Len(line))

DictPutKeepFirst(dict, key, value) ==
    IF \E k \in 1..Len(dict) : dict[k].path = key
    THEN dict
    ELSE Append(dict, [path |-> key, content |-> value])

\* sections[current_file] = content on an insertion-ordered dict: a key that
\* is already there keeps its place and takes the new value
DictPut(dict, key, value) ==
    IF \E k \in 1..Len(dict) : dict[k].path = key
    THEN [k \in 1..Len(dict) |->
            IF dict[k].path = key THEN [path |-> key, content |-> value]
            ELSE dict[k]]
    ELSE Append(dict, [path |-> key, content |-> value])

\* "Save previous section" / "Save last section"
SaveSection(dict, current_file, current_content) ==
    IF current_file # None
    THEN DictPut(dict, current_file[1], Join(current_content, <<NL>>))
    ELSE dict

\* the loop over diff_content.split('\n') from line i on
RECURSIVE ParseFrom(_, _, _, _, _)
ParseFrom(lines, i, dict, current_file, current_content) ==
    IF i > Len(lines)
    THEN SaveSection(dict, current_file, current_content)
    ELSE IF IsHeader(lines[i])
    THEN ParseFrom(lines, i + 1,
                   SaveSection(dict, current_file, current_content),
                   Some(HeaderPath(lines[i])), <<lines[i]>>)
    ELSE IF current_file # None
    THEN ParseFrom(lines, i + 1, dict, current_file,
                   Append(current_content, lines[i]))
    ELSE ParseFrom(lines, i + 1, dict, current_file, current_content)

\* the dict returned, as the sequence of its items in insertion order
parse_diff_sections(diff) == ParseFrom(Split(diff, <<NL>>), 1, <<>>, None, <<>>)

\* include_set = set(include_files) plus each entry without leading slashes
IncludeSet(incl) ==
    {incl[k] : k \in 1..Len(incl)} \cup {LStripSlash(incl[k]) : k \in 1..Len(incl)}

\* file_path in include_set or normalized_path in include_set
IncludedAsWritten(file_path, incl) == file_path \in IncludeSet(incl)

Included(file_path, incl) ==
    file_path \in IncludeSet(incl) \/ LStripSlash(file_path) \in IncludeSet(incl)

\* if exclude_patterns: any(re.search(pattern, file_path) ...); the patterns
\* of the model are literal text, which re.search finds as a substring
Excluded(file_path, excl) ==
    /\ excl # None
    /\ excl[1] # <<>>
    /\ \E k \in 1..Len(excl[1]) : Contains(file_path, excl[1][k])

\* the loop over sections.items(): the contents appended to filtered_sections
RECURSIVE FilterFrom(_, _, _, _)
FilterFrom(dict, k, incl, excl) ==
    IF k > Len(dict) THEN <<>>
    ELSE IF Included(dict[k].path, incl) /\ ~Excluded(dict[k].path, excl)
    THEN <<dict[k].content>> \o FilterFrom(dict, k + 1, incl, excl)
    ELSE FilterFrom(dict, k + 1, incl, excl)

\* return '\n'.join(filtered_sections)
filter_diff(diff, incl, excl) ==
    Join(FilterFrom(parse_diff_sections(diff), 1, incl, excl), <<NL>>)

----------------------------------------------------------------------------
(* merge_chunk_results, scripts/analyze_code.py *)
(* A dict is a function from its keys; a missing key is a key outside DOMAIN *)

\* d.get(key, default)
Get(d, key, default) == IF key \in DOMAIN d THEN d[key] ELSE default

\* d.get(key): the value when the key is there, else None
GetOpt(d, key) == IF key \in DOMAIN d THEN Some(d[key]) ELSE None

\* key = (v.get('file'), v.get('line'), v.get('rule_id'))
ViolationKey(v) == <<GetOpt(v, "file"), GetOpt(v, "line"), GetOpt(v, "rule_id")>>

\* if 'error' in result: continue
HasErrorNever(result) == FALSE

HasError(result) == "error" \in DOMAIN result

\* the results the first loop does not skip
RECURSIVE Usable(_)
Usable(rs) ==
    IF rs = <<>> THEN <<>>
    ELSE IF HasError(Head(rs)) THEN Usable(Tail(rs))
    ELSE <<Head(rs)>> \o Usable(Tail(rs))

\* merged['violations'].extend(result.get('violations', [])) over the loop
RECURSIVE ExtendViolations(_)
ExtendViolations(rs) ==
    IF rs = <<>> THEN <<>>
    ELSE Get(Head(rs), "violations", <<>>) \o ExtendViolations(Tail(rs))

\* if key not in seen: seen.add(key); unique_violations.append(v)
KeepsAll(v, seen) == TRUE

Keeps(v, seen) == ViolationKey(v) \notin seen

\* the instance of vs[i]'s key that comes last in vs
LastOfKey(vs, i) ==
    vs[CHOOSE j \in i..Len(vs) :
          /\ ViolationKey(vs[j]) = ViolationKey(vs[i])
          /\ \A k \in i..Len(vs) : ViolationKey(vs[k]) = ViolationKey(vs[i]) => k <= j]

RECURSIVE DedupLastWins(_, _, _)
DedupLastWins(vs, i, seen) ==
    IF i > Len(vs) THEN <<>>
    ELSE IF ViolationKey(vs[i]) \notin seen
    THEN <<LastOfKey(vs, i)>>
         \o DedupLastWins(vs, i + 1, seen \cup {ViolationKey(vs[i])})
    ELSE DedupLastWins(vs, i + 1, seen)

\* the deduplication loop from violation i on
RECURSIVE DedupFrom(_, _, _)
DedupFrom(vs, i, seen) ==
    IF i > Len(vs) THEN <<>>
    ELSE IF Keeps(vs[i], seen)
    THEN <<vs[i]>> \o DedupFrom(vs, i + 1, seen \cup {ViolationKey(vs[i])})
    ELSE DedupFrom(vs, i + 1, seen)

unique_violations(rs) == DedupFrom(ExtendViolations(Usable(rs)), 1, {})

\* summaries.append(result.get('summary', '')) over the loop
Summaries(rs) == [k \in 1..Len(rs) |-> Get(rs[k], "summary", "")]

\* ' '.join(summaries)
RECURSIVE JoinWords(_)
JoinWords(words) ==
    IF words = <<>> THEN ""
    ELSE IF Len(words) = 1 THEN words[1]
    ELSE words[1] \o " " \o JoinWords(Tail(words))

\* ' '.join(summaries) if summaries else 'Analysis complete.'
MergedSummaryJoinOnly(rs) == JoinWords(Summaries(Usable(rs)))

MergedSummary(rs) ==
    IF Summaries(Usable(rs)) # <<>> THEN JoinWords(Summaries(Usable(rs)))
    ELSE "Analysis complete."

\* merged['passed_checks'].update(result.get('passed_checks', [])) over the loop
PassedChecks(rs) ==
    UNION {{Get(rs[k], "passed_checks", <<>>)[j] :
              j \in 1..Len(Get(rs[k], "passed_checks", <<>>))} : k \in 1..Len(rs)}

\* set(merged['recommendations']) after the extends of the loop
Recommendations(rs) ==
    UNION {{Get(rs[k], "recommendations", <<>>)[j] :
              j \in 1..Len(Get(rs[k], "recommendations", <<>>))} : k \in 1..Len(rs)}

\* the sum of metrics.get(field, 0) over the loop
RECURSIVE SumMetric(_, _)
SumMetric(rs, field) ==
    IF rs = <<>> THEN 0
    ELSE Get(Get(Head(rs), "metrics", <<>>), field, 0) + SumMetric(Tail(rs), field)

\* len(unique_violations) / total_lines when total_lines > 0, else 0; the
\* quotient is kept as the pair (numerator, denominator)
ViolationDensity(n, total_lines) ==
    IF total_lines > 0 THEN <<n, total_lines>> ELSE <<0, 1>>

\* list(a_set): the elements in an order the language does not fix
ListsOf(S) ==
    {p \in [1..Cardinality(S) -> S] : \A i, j \in DOMAIN p : p[i] = p[j] => i = j}

\* the values merge_chunk_results(results) can return
merge_chunk_results(rs) ==
    {[summary |-> MergedSummary(rs),
      violations |-> unique_violations(rs),
      passed_checks |-> pl,
      recommendations |-> rl,
      metrics |-> [files_analyzed |-> SumMetric(Usable(rs), "files_analyzed"),
                   total_lines |-> SumMetric(Usable(rs), "total_lines"),
                   violation_density |->
                       ViolationDensity(Len(unique_violations(rs)),
                                        SumMetric(Usable(rs), "total_lines"))]] :
        pl \in ListsOf(PassedChecks(Usable(rs))),
        rl \in ListsOf(Recommendations(Usable(rs)))}

----------------------------------------------------------------------------
(* format_review.py *)
(* A severity and a line given as a string are text; a value that can be of
   more than one JSON type is a record named after its type: [int |-> 3],
   [str |-> text], [null |-> TRUE]. *)

JsonInt(n) == [int |-> n]

JsonStr(s) == [str |-> s]

JsonNull == [null |-> TRUE]

UpperCase ==
    <<"A", "B", "C", "D", "E", "F", "G", "H", "I", "J", "K", "L", "M",
      "N", "O", "P", "Q", "R", "S", "T", "U", "V", "W", "X", "Y", "Z">>

LowerCase ==
    <<"a", "b", "c", "d", "e", "f", "g", "h", "i", "j", "k", "l", "m",
      "n", "o", "p", "q", "r", "s", "t", "u", "v", "w", "x", "y", "z">>

\* str.lower() on text
Lower(s) ==
    [i \in 1..Len(s) |->
        IF \E k \in 1..Len(UpperCase) : UpperCase[k] = s[i]
        THEN LowerCase[CHOOSE k \in 1..Len(UpperCase) : UpperCase[k] = s[i]]
        ELSE s[i]]

SevCritical == <<"c", "r", "i", "t", "i", "c", "a", "l">>

SevHigh == <<"h", "i", "g", "h">>

SevMedium == <<"m", "e", "d", "i", "u", "m">>

SevLow == <<"l", "o", "w">>

SevInfo == <<"i", "n", "f", "o">>

\* SEVERITY_ORDER = ['critical', 'high', 'medium', 'low', 'info']
SEVERITY_ORDER == <<SevCritical, SevHigh, SevMedium, SevLow, SevInfo>>

\* SEVERITY_EMOJI.get(severity, default), each emoji written by its name
SEVERITY_EMOJI(severity, default) ==
    IF severity = SevCritical THEN "(rotating light)"
    ELSE IF severity = SevHigh THEN "(cross mark)"
    ELSE IF severity = SevMedium THEN "(warning)"
    ELSE IF severity = SevLow THEN "(light bulb)"
    ELSE IF severity = SevInfo THEN "(information)"
    ELSE default

\* data['_source_file'] = json_file.name
WithSourceFile(file) ==
    [key \in DOMAIN file.data \cup {"_source_file"} |->
        IF key = "_source_file" THEN file.name ELSE file.data[key]]

\* the loop over the files of the directory, in the order glob yields them; a
\* file that cannot be read as JSON has no data and is passed over
RECURSIVE load_all_results(_)
load_all_results(files) ==
    IF files = <<>> THEN <<>>
    ELSE IF "data" \in DOMAIN Head(files)
    THEN <<WithSourceFile(Head(files))>> \o load_all_results(Tail(files))
    ELSE load_all_results(Tail(files))

\* source = result.get('_source_file', 'unknown')
SourceOf(result) == Get(result, "_source_file", "unknown")

\* language = result.get('metadata', {}).get('language', 'common')
LanguageOf(result) ==
    Get(Get(result, "metadata", <<>>), "language", JsonStr("common"))

\* a tagged copy that keeps the file, line and rule_id of the violation only
TaggedIdentityOnly(violation, source, language) ==
    [key \in (DOMAIN violation \cap {"file", "line", "rule_id"})
                 \cup {"_source", "_language"} |->
        IF key = "_source" THEN source
        ELSE IF key = "_language" THEN language
        ELSE violation[key]]

\* violation['_source'] = source; violation['_language'] = language
Tagged(violation, source, language) ==
    [key \in DOMAIN violation \cup {"_source", "_language"} |->
        IF key = "_source" THEN source
        ELSE IF key = "_language" THEN language
        ELSE violation[key]]

\* the loops of aggregate_violations from result k on: all_violations
RECURSIVE AllViolationsFrom(_, _)
AllViolationsFrom(rs, k) ==
    IF k > Len(rs) THEN <<>>
    ELSE [j \in 1..Len(Get(rs[k], "violations", <<>>)) |->
             Tagged(rs[k].violations[j], SourceOf(rs[k]), LanguageOf(rs[k]))]
         \o AllViolationsFrom(rs, k + 1)

\* sev = v.get('severity', 'medium'), without the .lower()
severity_keyAsWritten(v) ==
    LET sev == Get(v, "severity", SevMedium)
    IN  IF \E i \in 1..Len(SEVERITY_ORDER) : SEVERITY_ORDER[i] = sev
        THEN (CHOOSE i \in 1..Len(SEVERITY_ORDER) : SEVERITY_ORDER[i] = sev) - 1
        ELSE 99

\* sev = v.get('severity', 'medium').lower()
\* return SEVERITY_ORDER.index(sev) if sev in SEVERITY_ORDER else 99
severity_key(v) ==
    LET sev == Lower(Get(v, "severity", SevMedium))
    IN  IF \E i \in 1..Len(SEVERITY_ORDER) : SEVERITY_ORDER[i] = sev
        THEN (CHOOSE i \in 1..Len(SEVERITY_ORDER) : SEVERITY_ORDER[i] = sev) - 1
        ELSE 99

\* sorted(vs, key=severity_key): a stable sort, so each element goes behind
\* the elements before it whose key is not greater
RECURSIVE SortedByKey(_, _)
SortedByKey(vs, n) ==
    IF n = 0 THEN <<>>
    ELSE LET before == SortedByKey(vs, n - 1)
             at == Cardinality({i \in 1..(n - 1) :
                                   severity_key(before[i]) <= severity_key(vs[n])})
         IN  SubSeq(before, 1, at) \o <<vs[n]>> \o SubSeq(before, at + 1, n - 1)

aggregate_violations(rs) ==
    SortedByKey(AllViolationsFrom(rs, 1), Len(AllViolationsFrom(rs, 1)))

SevNone == <<"n", "o", "n", "e">>

\* severities = [v.get('severity', 'medium').lower() for v in violations]
SeveritiesOf(vs) == {Lower(Get(vs[i], "severity", SevMedium)) : i \in 1..Len(vs)}

\* for sev in SEVERITY_ORDER: if sev in severities: return sev
FirstPresentFrom(i, severities) ==
    LET hits == {k \in i..Len(SEVERITY_ORDER) : SEVERITY_ORDER[k] \in severities}
    IN  IF hits = {} THEN None ELSE Some(SEVERITY_ORDER[Min(hits)])

get_max_severity(vs) ==
    IF vs = <<>> THEN SevNone
    ELSE IF FirstPresentFrom(1, SeveritiesOf(vs)) # None
    THEN FirstPresentFrom(1, SeveritiesOf(vs))[1]
    ELSE SevMedium

Digits == <<"0", "1", "2", "3", "4", "5", "6", "7", "8", "9">>

\* str.isdigit() on text
IsDigitText(s) ==
    /\ s # <<>>
    /\ \A i \in 1..Len(s) : \E k \in 1..Len(Digits) : Digits[k] = s[i]

\* int(s) for a text of digits
RECURSIVE IntOfDigits(_)
IntOfDigits(s) ==
    IF s = <<>> THEN 0
    ELSE IntOfDigits(SubSeq(s, 1, Len(s) - 1)) * 10
         + (CHOOSE k \in 1..Len(Digits) : Digits[k] = s[Len(s)]) - 1

\* not file_path, for file_path = v.get('file')
NoFilePath(v) == "file" \notin DOMAIN v \/ v.file = ""

\* not line or line == '?', for line = v.get('line')
NoLine(v) ==
    \/ "line" \notin DOMAIN v
    \/ v.line = JsonNull
    \/ v.line = JsonInt(0)
    \/ v.line = JsonStr(<<>>)
    \/ v.line = JsonStr(<<"?">>)

\* int(line) if isinstance(line, (int, str)) and str(line).isdigit() else None
InlineLine(line) ==
    IF "int" \in DOMAIN line /\ line.int >= 0 THEN Some(line.int)
    ELSE IF "str" \in DOMAIN line /\ IsDigitText(line.str)
    THEN Some(IntOfDigits(line.str))
    ELSE None

\* body = f"{emoji} **{rule_id}**: {explanation}", and the suggestion when
\* there is one
InlineBody(v) ==
    SEVERITY_EMOJI(Lower(Get(v, "severity", SevMedium)), "(warning)")
        \o " **" \o Get(v, "rule_id", "") \o "**: "
        \o Get(v, "explanation", "Issue detected")
        \o (IF Get(v, "suggestion", "") # ""
            THEN "\n\n(light bulb) " \o v.suggestion ELSE "")

\* the loop of extract_inline_comments from violation i on, and the filter
\* that drops the comments whose line is None
RECURSIVE InlineFrom(_, _)
InlineFrom(vs, i) ==
    IF i > Len(vs) THEN <<>>
    ELSE IF NoFilePath(vs[i]) \/ NoLine(vs[i]) \/ InlineLine(vs[i].line) = None
    THEN InlineFrom(vs, i + 1)
    ELSE <<[path |-> vs[i].file,
            line |-> InlineLine(vs[i].line)[1],
            body |-> InlineBody(vs[i]),
            severity |-> Lower(Get(vs[i], "severity", SevMedium))]>>
         \o InlineFrom(vs, i + 1)

extract_inline_comments(vs) == InlineFrom(vs, 1)

\* inline_comments[:20]
MaxInlineComments == 20

\* the counts over the violations that have the field
CountByPresent(vs, field, default) ==
    [key \in {vs[i][field] : i \in {n \in 1..Len(vs) : field \in DOMAIN vs[n]}} |->
        Cardinality({i \in 1..Len(vs) : field \in DOMAIN vs[i] /\ vs[i][field] = key})]

\* counts[key] = counts.get(key, 0) + 1 over the violations
CountBy(vs, field, default) ==
    [key \in {Get(vs[i], field, default) : i \in 1..Len(vs)} |->
        Cardinality({i \in 1..Len(vs) : Get(vs[i], field, default) = key})]

\* the summary main writes when no result was loaded
EmptySummary ==
    [has_violations |-> FALSE, total_violations |-> 0, max_severity |-> SevNone,
     inline_comments |-> <<>>]

\* the summary main writes for the aggregated violations
SummaryOf(vs) ==
    [has_violations |-> Len(vs) > 0,
     total_violations |-> Len(vs),
     max_severity |-> get_max_severity(vs),
     by_severity |-> CountBy(vs, "severity", SevMedium),
     by_language |-> CountBy(vs, "_language", JsonStr("common")),
     inline_comments |->
         SubSeq(extract_inline_comments(vs), 1,
                Min({MaxInlineComments, Len(extract_inline_comments(vs))}))]

----------------------------------------------------------------------------
(* analyze_with_llm, scripts/analyze_code.py *)

\* the place of the first character from place i on that is not whitespace,
\* one past the end when there is none
RECURSIVE FirstKept(_, _)
FirstKept(s, i) ==
    IF i > Len(s) \/ ~IsSpace(s[i]) THEN i ELSE FirstKept(s, i + 1)

\* the place of the last character up to place i that is not whitespace, 0
\* when there is none
RECURSIVE LastKept(_, _)
LastKept(s, i) ==
    IF i < 1 \/ ~IsSpace(s[i]) THEN i ELSE LastKept(s, i - 1)

\* str.strip()
Strip(s) == SubSeq(s, FirstKept(s, 1), LastKept(s, Len(s)))

\* str.startswith(prefix)
StartsWith(s, prefix) ==
    Len(s) >= Len(prefix) /\ SubSeq(s, 1, Len(prefix)) = prefix

\* the backquote character, which a string of this notation cannot hold, under
\* a name of its own
Backquote == "backquote"

\* the code fence, three backquotes
Fence == <<Backquote, Backquote, Backquote>>

\* the loop with a fence looked for behind the leading blanks of a line
RECURSIVE JsonLinesFromStripped(_, _, _)
JsonLinesFromStripped(lines, i, in_json) ==
    IF i > Len(lines) THEN <<>>
    ELSE IF StartsWith(Strip(lines[i]), Fence) /\ ~in_json
    THEN JsonLinesFromStripped(lines, i + 1, TRUE)
    ELSE IF StartsWith(Strip(lines[i]), Fence) /\ in_json THEN <<>>
    ELSE IF in_json THEN <<lines[i]>> \o JsonLinesFromStripped(lines, i + 1, in_json)
    ELSE JsonLinesFromStripped(lines, i + 1, in_json)

\* the loop over the lines from line i on: json_lines
RECURSIVE JsonLinesFrom(_, _, _)
JsonLinesFrom(lines, i, in_json) ==
    IF i > Len(lines) THEN <<>>
    ELSE IF StartsWith(lines[i], Fence) /\ ~in_json
    THEN JsonLinesFrom(lines, i + 1, TRUE)
    ELSE IF StartsWith(lines[i], Fence) /\ in_json THEN <<>>
    ELSE IF in_json THEN <<lines[i]>> \o JsonLinesFrom(lines, i + 1, in_json)
    ELSE JsonLinesFrom(lines, i + 1, in_json)

\* response_text at line 221: the stripped response, or the lines between
\* its fences when it starts with a fence
ResponseText(response) ==
    LET response_text == Strip(response)
    IN  IF StartsWith(response_text, Fence)
        THEN Join(JsonLinesFrom(Split(response_text, <<NL>>), 1, FALSE), <<NL>>)
        ELSE response_text

\* The JSON texts of the model and the values json.loads gives for them. A
\* value that is not a dict is a record named after its type.
DocOkText ==
    <<"{", "\"", "s", "u", "m", "m", "a", "r", "y", "\"", ":", "\"", "o",
      "k", "\"", ",", "\"", "v", "i", "o", "l", "a", "t", "i", "o", "n", "s",
      "\"", ":", "[", "]", "}">>

DocOk == [summary |-> "ok", violations |-> <<>>]

\* a dict whose two violations have the same file, line and rule_id
DocTwiceText ==
    <<"{", "\"", "s", "u", "m", "m", "a", "r", "y", "\"", ":", "\"", "t",
      "w", "o", "\"", ",", "\"", "v", "i", "o", "l", "a", "t", "i", "o", "n",
      "s", "\"", ":", "[", "{", "\"", "f", "i", "l", "e", "\"", ":", "\"",
      "a", ".", "p", "y", "\"", ",", "\"", "l", "i", "n", "e", "\"", ":",
      "3", ",", "\"", "r", "u", "l", "e", "_", "i", "d", "\"", ":", "\"",
      "R", "1", "\"", ",", "\"", "s", "e", "v", "e", "r", "i", "t", "y",
      "\"", ":", "\"", "h", "i", "g", "h", "\"", "}", ",", "{", "\"", "f",
      "i", "l", "e", "\"", ":", "\"", "a", ".", "p", "y", "\"", ",", "\"",
      "l", "i", "n", "e", "\"", ":", "3", ",", "\"", "r", "u", "l", "e", "_",
      "i", "d", "\"", ":", "\"", "R", "1", "\"", ",", "\"", "s", "e", "v",
      "e", "r", "i", "t", "y", "\"", ":", "\"", "l", "o", "w", "\"", "}",
      "]", "}">>

DocTwice ==
    [summary |-> "two",
     violations |->
         <<[file |-> "a.py", line |-> JsonInt(3), rule_id |-> "R1",
            severity |-> SevHigh],
           [file |-> "a.py", line |-> JsonInt(3), rule_id |-> "R1",
            severity |-> SevLow]>>]

\* a dict with one violation of the file, line and rule_id of DocTwice's
DocLowText ==
    <<"{", "\"", "s", "u", "m", "m", "a", "r", "y", "\"", ":", "\"", "l", "o",
      "w", "\"", ",", "\"", "v", "i", "o", "l", "a", "t", "i", "o", "n", "s",
      "\"", ":", "[", "{", "\"", "f", "i", "l", "e", "\"", ":", "\"", "a",
      ".", "p", "y", "\"", ",", "\"", "l", "i", "n", "e", "\"", ":", "3", ",",
      "\"", "r", "u", "l", "e", "_", "i", "d", "\"", ":", "\"", "R", "1",
      "\"", ",", "\"", "s", "e", "v", "e", "r", "i", "t", "y", "\"", ":",
      "\"", "l", "o", "w", "\"", "}", "]", "}">>

DocLow ==
    [summary |-> "low",
     violations |->
         <<[file |-> "a.py", line |-> JsonInt(3), rule_id |-> "R1",
            severity |-> SevLow]>>]

DocListText == <<"[", "]">>

DocList == [json_array |-> <<>>]

DocNumberText == <<"7">>

DocNumber == [json_number |-> 7]

DocStringText == <<"\"", "s", "\"">>

DocString == [json_string |-> <<"s">>]

Documents ==
    {[text |-> DocOkText, value |-> DocOk],
     [text |-> DocTwiceText, value |-> DocTwice],
     [text |-> DocLowText, value |-> DocLow],
     [text |-> DocListText, value |-> DocList],
     [text |-> DocNumberText, value |-> DocNumber],
     [text |-> DocStringText, value |-> DocString]}

\* json.loads(text): the value of the document the text holds between
\* leading and trailing whitespace, None for JSONDecodeError. Every text of
\* the model that is JSON is one of Documents.
json_loads(text) ==
    LET document == Strip(text)
    IN  IF \E d \in Documents : d.text = document
        THEN Some((CHOOSE d \in Documents : d.text = document).value)
        ELSE None

\* a value json.loads returns that is a dict
IsDict(value) ==
    DOMAIN value \cap {"json_array", "json_number", "json_string"} = {}

\* response[:500]
RawExcerptLength == 500

RawExcerptOfText(response) ==
    SubSeq(ResponseText(response), 1,
           Min({RawExcerptLength, Len(ResponseText(response))}))

RawExcerpt(response) ==
    SubSeq(response, 1, Min({RawExcerptLength, Len(response)}))

\* the dict of the except branch; the decoder's message, which ends the
\* error text in the code, is left out
ParseFailure(response) ==
    [error |-> "Failed to parse LLM response as JSON",
     raw_response |-> RawExcerpt(response),
     violations |-> <<>>,
     summary |-> "Analysis failed due to response parsing error"]

\* what analyze_with_llm returns when client.query has returned response
analyze_with_llm(response) ==
    LET parsed == json_loads(ResponseText(response))
    IN  IF parsed # None THEN parsed[1] ELSE ParseFailure(response)

----------------------------------------------------------------------------
(* The diffs the operations are run on: up to MaxPieces pieces of text *)

HdrF == GitMarker \o <<"a", "/", "f", " ", "b", "/", "f", NL>>

HdrG == GitMarker \o <<"a", "/", "/", "g", " ", "b", "/", "/", "g", NL>>

BodyLine == <<"+", "x", NL>>

BlankLines == <<NL, " ", NL>>

\* an added line whose text holds the marker: a diff of a diff
InlineMarker == <<"+">> \o GitMarker \o <<"q", NL>>

\* a line that starts with the marker and is no file header
BareMarker == GitMarker \o <<"q", NL>>

Pieces == {HdrF, HdrG, BodyLine, BlankLines, InlineMarker, BareMarker}

PieceLists == UNION {[1..n -> Pieces] : n \in 0..MaxPieces}

Diffs == {Concat(p) : p \in PieceLists}

TokenBudgets == 1..MaxTokens

\* plain diffs: a file header first, then headers and added lines, the marker
\* nowhere but at the start of a header line
PlainPieces == {HdrF, HdrG, BodyLine}

PlainDiffs ==
    {Concat(<<h>> \o p) :
        h \in {HdrF, HdrG},
        p \in UNION {[1..n -> PlainPieces] : n \in 0..(MaxPieces - 1)}}

\* diffs as git writes them: a file header first, then headers and added
\* lines, among them an added line whose own text holds the marker
GitPieces == {HdrF, HdrG, BodyLine, InlineMarker}

GitDiffs ==
    {Concat(<<h>> \o p) :
        h \in {HdrF, HdrG},
        p \in UNION {[1..n -> GitPieces] : n \in 0..(MaxPieces - 1)}}

\* include lists and exclude patterns for filter_diff; HdrG's path is '/g'
IncludeLists ==
    {<<>>, << <<"f">> >>, << <<"g">> >>, << <<"/", "g">> >>,
     << <<"/", "/", "g">> >>, << <<"g">>, <<"f">> >>}

ExcludeOptions ==
    {None, Some(<<>>), Some(<< <<"f">> >>), Some(<< <<"x">>, <<"g">> >>)}

----------------------------------------------------------------------------
(* chunk_diff applied to a diff *)

\* no run of analyze_code's main has begun
RunIdle ==
    /\ responses = <<>>
    /\ client = FALSE
    /\ queries = 0
    /\ asked = <<>>
    /\ output = None

\* no run of format_review's main has begun
ReportIdle ==
    /\ loaded = <<>>
    /\ violations = <<>>
    /\ summary = None

InitChunk ==
    /\ pc = "start"
    /\ diff_content \in Diffs
    /\ max_tokens = 1
    /\ chunks = <<>>
    /\ sections = <<>>
    /\ include_files = <<>>
    /\ exclude_patterns = None
    /\ filtered = <<>>
    /\ results = <<>>
    /\ merged = None
    /\ remerged = None
    /\ RunIdle
    /\ ReportIdle

ChunkDiff ==
    /\ pc = "start"
    /\ \E mt \in TokenBudgets :
          /\ max_tokens' = mt
          /\ chunks' = chunk_diff(diff_content, mt)
    /\ pc' = "chunked"
    /\ UNCHANGED <<diff_content, sections, include_files,
                   exclude_patterns, filtered, results, merged, remerged>>
    /\ UNCHANGED <<runVars, reportVars>>

NextChunk == ChunkDiff

SpecChunk == InitChunk /\ [][NextChunk]_vars

\* the same, on the diffs git writes
InitGitChunk ==
    /\ pc = "start"
    /\ diff_content \in GitDiffs
    /\ max_tokens = 1
    /\ chunks = <<>>
    /\ sections = <<>>
    /\ include_files = <<>>
    /\ exclude_patterns = None
    /\ filtered = <<>>
    /\ results = <<>>
    /\ merged = None
    /\ remerged = None
    /\ RunIdle
    /\ ReportIdle

SpecGitChunk == InitGitChunk /\ [][NextChunk]_vars

\* the same, on plain diffs
InitPlainChunk ==
    /\ pc = "start"
    /\ diff_content \in PlainDiffs
    /\ max_tokens = 1
    /\ chunks = <<>>
    /\ sections = <<>>
    /\ include_files = <<>>
    /\ exclude_patterns = None
    /\ filtered = <<>>
    /\ results = <<>>
    /\ merged = None
    /\ remerged = None
    /\ RunIdle
    /\ ReportIdle

SpecPlainChunk == InitPlainChunk /\ [][NextChunk]_vars

----------------------------------------------------------------------------
(* parse_diff_sections and filter_diff applied to a diff *)

InitFilter ==
    /\ pc = "start"
    /\ diff_content \in Diffs
    /\ max_tokens = 1
    /\ chunks = <<>>
    /\ sections = <<>>
    /\ include_files = <<>>
    /\ exclude_patterns = None
    /\ filtered = <<>>
    /\ results = <<>>
    /\ merged = None
    /\ remerged = None
    /\ RunIdle
    /\ ReportIdle

ParseDiffSections ==
    /\ pc = "start"
    /\ sections' = parse_diff_sections(diff_content)
    /\ pc' = "parsed"
    /\ UNCHANGED <<diff_content, max_tokens, chunks, include_files,
                   exclude_patterns, filtered, results, merged, remerged>>
    /\ UNCHANGED <<runVars, reportVars>>

FilterDiff ==
    /\ pc = "parsed"
    /\ \E incl \in IncludeLists, excl \in ExcludeOptions :
          /\ include_files' = incl
          /\ exclude_patterns' = excl
          /\ filtered' = filter_diff(diff_content, incl, excl)
    /\ pc' = "filtered"
    /\ UNCHANGED <<diff_content, max_tokens, chunks, sections, results, merged,
                   remerged>>
    /\ UNCHANGED <<runVars, reportVars>>

NextFilter == ParseDiffSections \/ FilterDiff

SpecFilter == InitFilter /\ [][NextFilter]_vars

----------------------------------------------------------------------------
(* merge_chunk_results applied to a list of results, and then to its own
   result taken twice *)

V1 == [file |-> "a.py", line |-> 1, rule_id |-> "R1", explanation |-> "first"]

\* the same finding as V1, worded differently
V1b == [file |-> "a.py", line |-> 1, rule_id |-> "R1", explanation |-> "second"]

\* a finding without a file
V2 == [line |-> 1, rule_id |-> "R1", explanation |-> "no file"]

ViolationPool == {V1, V1b, V2}

\* the violation lists of a result: up to MaxViolations findings of the pool,
\* each at most once
ViolationLists ==
    UNION {{vs \in [1..n -> ViolationPool] :
               \A i, j \in 1..n : vs[i] = vs[j] => i = j} : n \in 0..MaxViolations}

OkResult(vs) ==
    [summary |-> "ok", violations |-> vs, passed_checks |-> <<"R2">>,
     recommendations |-> <<"tidy">>,
     metrics |-> [files_analyzed |-> 1, total_lines |-> 10,
                  violation_density |-> <<0, 1>>]]

\* what analyze_with_llm returns for a response that is not JSON
ParseErrorResult ==
    [error |-> "Failed to parse LLM response as JSON", raw_response |-> "oops",
     violations |-> <<>>,
     summary |-> "Analysis failed due to response parsing error"]

\* a response that is JSON and carries an error key of its own
ErrorWithViolations ==
    [error |-> "truncated", summary |-> "partial", violations |-> <<V1b>>,
     passed_checks |-> <<"R9">>, recommendations |-> <<"retry">>,
     metrics |-> [files_analyzed |-> 1, total_lines |-> 5]]

\* a response that holds a summary and nothing else
SummaryOnlyResult == [summary |-> "bare"]

ResultOptions ==
    {OkResult(vs) : vs \in ViolationLists}
        \cup {ParseErrorResult, ErrorWithViolations, SummaryOnlyResult}

ResultLists == UNION {[1..n -> ResultOptions] : n \in 0..MaxResults}

InitMerge ==
    /\ pc = "start"
    /\ diff_content = <<>>
    /\ max_tokens = 1
    /\ chunks = <<>>
    /\ sections = <<>>
    /\ include_files = <<>>
    /\ exclude_patterns = None
    /\ filtered = <<>>
    /\ results = <<>>
    /\ merged = None
    /\ remerged = None
    /\ RunIdle
    /\ ReportIdle

MergeChunkResults ==
    /\ pc = "start"
    /\ \E rs \in ResultLists :
          /\ results' = rs
          /\ merged' \in merge_chunk_results(rs)
    /\ pc' = "merged"
    /\ UNCHANGED <<diff_content, max_tokens, chunks, sections, include_files,
                   exclude_patterns, filtered, remerged>>
    /\ UNCHANGED <<runVars, reportVars>>

Remerge ==
    /\ pc = "merged"
    /\ remerged' \in merge_chunk_results(<<merged, merged>>)
    /\ pc' = "remerged"
    /\ UNCHANGED <<diff_content, max_tokens, chunks, sections, include_files,
                   exclude_patterns, filtered, results, merged>>
    /\ UNCHANGED <<runVars, reportVars>>

NextMerge == MergeChunkResults \/ Remerge

SpecMerge == InitMerge /\ [][NextMerge]_vars

----------------------------------------------------------------------------
(* format_review's main applied to a directory of result files *)

\* the findings of a directory, over all its files
MaxReportViolations == 2

\* a severity in capitals and small letters
SevMixedCase == <<"H", "i", "g", "h">>

\* a severity outside SEVERITY_ORDER
SevBlocker == <<"b", "l", "o", "c", "k", "e", "r">>

Finding(sev) ==
    [file |-> "a.py", line |-> JsonInt(3), rule_id |-> "R1", severity |-> sev,
     explanation |-> "nested too deep"]

\* a finding without a severity
FindingNoSeverity ==
    [file |-> "a.py", line |-> JsonInt(3), rule_id |-> "R1",
     explanation |-> "nested too deep"]

SeverityPool ==
    {Finding(sev) : sev \in {SevCritical, SevHigh, SevMedium, SevLow, SevInfo,
                             SevMixedCase, SevBlocker}}
        \cup {FindingNoSeverity}

Located(line) ==
    [file |-> "b.py", line |-> line, rule_id |-> "R2", severity |-> SevLow,
     explanation |-> "unused name", suggestion |-> "remove it"]

\* findings without a line, without a file, and with an empty file
FindingNoLine ==
    [file |-> "b.py", rule_id |-> "R2", severity |-> SevLow]

FindingNoFile ==
    [line |-> JsonInt(3), rule_id |-> "R2", severity |-> SevLow]

FindingEmptyFile ==
    [file |-> "", line |-> JsonInt(3), rule_id |-> "R2", severity |-> SevLow]

LocationPool ==
    {Located(line) : line \in {JsonInt(3), JsonStr(<<"1", "2">>), JsonStr(<<"?">>),
                               JsonStr(<<"0">>), JsonInt(0), JsonInt(0 - 3),
                               JsonStr(<<"-", "3">>), JsonNull}}
        \cup {FindingNoLine, FindingNoFile, FindingEmptyFile}

\* more located findings than main keeps inline comments, on lines 1, 2, ...
ManyLocated == [i \in 1..(MaxInlineComments + 1) |-> Located(JsonInt(i))]

\* one finding of every severity, the lowest first
EverySeverity ==
    <<Finding(SevBlocker), Finding(SevInfo), Finding(SevLow), FindingNoSeverity,
      Finding(SevMedium), Finding(SevMixedCase), Finding(SevHigh),
      Finding(SevCritical)>>

\* the lists of findings of a directory: up to MaxReportViolations findings
\* of one pool, or the many located ones
ReportLists ==
    UNION {[1..n -> SeverityPool] \cup [1..n -> LocationPool] :
              n \in 0..MaxReportViolations}
        \cup {ManyLocated, <<Located(JsonStr(<<"?">>))>> \o ManyLocated,
              EverySeverity}

\* the result file analyze_code's main writes for a run with --language python
PythonFile(vs) ==
    [name |-> "python.json",
     data |-> [summary |-> "ok", violations |-> vs,
               metadata |-> [language |-> JsonStr("python"),
                             strictness |-> "normal",
                             rules_file |-> "rules/python.yaml",
                             chunks_analyzed |-> 1]]]

\* the result file of a run without --language
UnnamedFile(vs) ==
    [name |-> "result.json",
     data |-> [summary |-> "ok", violations |-> vs,
               metadata |-> [language |-> JsonNull,
                             strictness |-> "normal",
                             rules_file |-> "rules/common.yaml",
                             chunks_analyzed |-> 1]]]

\* a result file with findings and no metadata
BareFile(vs) ==
    [name |-> "bare.json", data |-> [summary |-> "ok", violations |-> vs]]

\* the result file of a run on an empty diff
NoChangesResult == [summary |-> "No changes to analyze", violations |-> <<>>]

NoChangesFile == [name |-> "empty.json", data |-> NoChangesResult]

\* a file that is not JSON
UnreadableFile == [name |-> "broken.json"]

\* the directories, in the order glob yields their files: the first k
\* findings of a list in the first file and the rest in the second
DirShapes ==
    {"none", "broken", "empty", "python", "unnamed", "bare", "broken python",
     "empty unnamed", "python unnamed", "unnamed python"}

\* where the list can be cut: anywhere for two files of findings, and
\* nowhere otherwise
SplitsOf(shape, vs) ==
    IF shape \in {"python unnamed", "unnamed python"} THEN 0..Len(vs) ELSE {0}

DirOf(shape, vs, k) ==
    CASE shape = "none" -> <<>>
      [] shape = "broken" -> <<UnreadableFile>>
      [] shape = "empty" -> <<NoChangesFile>>
      [] shape = "python" -> <<PythonFile(vs)>>
      [] shape = "unnamed" -> <<UnnamedFile(vs)>>
      [] shape = "bare" -> <<BareFile(vs)>>
      [] shape = "broken python" -> <<UnreadableFile, PythonFile(vs)>>
      [] shape = "empty unnamed" -> <<NoChangesFile, UnnamedFile(vs)>>
      [] shape = "python unnamed" ->
             <<PythonFile(SubSeq(vs, 1, k)), UnnamedFile(SubSeq(vs, k + 1, Len(vs)))>>
      [] shape = "unnamed python" ->
             <<UnnamedFile(SubSeq(vs, 1, k)), PythonFile(SubSeq(vs, k + 1, Len(vs)))>>

InitReport ==
    /\ pc = "start"
    /\ diff_content = <<>>
    /\ max_tokens = 1
    /\ chunks = <<>>
    /\ sections = <<>>
    /\ include_files = <<>>
    /\ exclude_patterns = None
    /\ filtered = <<>>
    /\ results = <<>>
    /\ merged = None
    /\ remerged = None
    /\ RunIdle
    /\ ReportIdle

\* main of format_review.py when no result could be loaded
FormatReviewEmpty ==
    /\ pc = "start"
    /\ \E shape \in DirShapes :
          /\ load_all_results(DirOf(shape, <<>>, 0)) = <<>>
          /\ loaded' = <<>>
    /\ violations' = <<>>
    /\ summary' = Some(EmptySummary)
    /\ pc' = "reported"
    /\ UNCHANGED <<diff_content, max_tokens, chunks, sections, include_files,
                   exclude_patterns, filtered, results, merged, remerged, runVars>>

\* main of format_review.py on the results it has loaded
FormatReview ==
    /\ pc = "start"
    /\ \E shape \in DirShapes, vs \in ReportLists :
          \E k \in SplitsOf(shape, vs) :
              /\ load_all_results(DirOf(shape, vs, k)) # <<>>
              /\ loaded' = load_all_results(DirOf(shape, vs, k))
              /\ violations' = aggregate_violations(loaded')
              /\ summary' = Some(SummaryOf(violations'))
    /\ pc' = "reported"
    /\ UNCHANGED <<diff_content, max_tokens, chunks, sections, include_files,
                   exclude_patterns, filtered, results, merged, remerged, runVars>>

NextReport == FormatReviewEmpty \/ FormatReview

SpecReport == InitReport /\ [][NextReport]_vars

----------------------------------------------------------------------------
(* analyze_with_llm applied to one response of the model endpoint *)

\* the lines of a response
MaxLines == 4

FenceJsonLine == Fence \o <<"j", "s", "o", "n">>

IndentedFence == <<" ">> \o Fence

ProseLine == <<"o", "o", "p", "s">>

BlankLine == <<>>

ResponseLines ==
    {FenceJsonLine, Fence, IndentedFence, ProseLine, BlankLine, DocOkText,
     DocListText}

\* a text longer than the raw excerpt
LongProse == [i \in 1..(RawExcerptLength + 1) |-> "x"]

Responses ==
    {Join(lines, <<NL>>) : lines \in UNION {[1..n -> ResponseLines] : n \in 0..MaxLines}}
        \cup {DocNumberText, DocStringText, DocTwiceText, LongProse,
              <<NL>> \o LongProse, Fence \o <<NL>> \o LongProse}

InitAnalyze ==
    /\ pc = "start"
    /\ diff_content = <<>>
    /\ max_tokens = 1
    /\ chunks = <<>>
    /\ sections = <<>>
    /\ include_files = <<>>
    /\ exclude_patterns = None
    /\ filtered = <<>>
    /\ results = <<>>
    /\ merged = None
    /\ remerged = None
    /\ responses = <<>>
    /\ client = TRUE
    /\ queries = 0
    /\ asked = <<>>
    /\ output = None
    /\ ReportIdle

\* analyze_with_llm when client.query returns a text
AnalyzeWithLlm ==
    /\ pc = "start"
    /\ \E response \in Responses :
          /\ responses' = <<response>>
          /\ results' = <<analyze_with_llm(response)>>
    /\ queries' = queries + 1
    /\ asked' = <<diff_content>>
    /\ pc' = "analysed"
    /\ UNCHANGED <<diff_content, max_tokens, chunks, sections, include_files,
                   exclude_patterns, filtered, merged, remerged, client, output,
                   reportVars>>

\* analyze_with_llm when client.query raises: the call at lines 195-200 is
\* outside the try, so the exception leaves analyze_with_llm
AnalyzeQueryRaises ==
    /\ pc = "start"
    /\ queries' = queries + 1
    /\ asked' = <<diff_content>>
    /\ pc' = "raised"
    /\ UNCHANGED <<diff_content, max_tokens, chunks, sections, include_files,
                   exclude_patterns, filtered, results, merged, remerged,
                   responses, client, output, reportVars>>

NextAnalyze == AnalyzeWithLlm \/ AnalyzeQueryRaises

SpecAnalyze == InitAnalyze /\ [][NextAnalyze]_vars

----------------------------------------------------------------------------
(* main of analyze_code.py, and format_review's main on the file it wrote *)

\* chunk_diff(diff_content) at line 335 takes the default max_tokens
DefaultMaxTokens == 6000

\* the sections of a diff that is too large for one chunk
MaxRunSections == 3

\* a section of more than half the size of a chunk
BigSection ==
    HdrF \o [i \in 1..(max_chars(DefaultMaxTokens) \div 2) |->
                IF i % 2 = 1 THEN "+" ELSE NL]

\* the i-th section of a large diff: each is longer than the one before
NthSection(i) == BigSection \o Concat([j \in 1..i |-> BodyLine])

RunDiffs ==
    {<<>>, BlankLines, HdrF \o BodyLine}
        \cup {Concat([i \in 1..n |-> NthSection(i)]) : n \in 1..MaxRunSections}

\* the texts the endpoint answers with: a dict, a fenced dict with the same
\* finding twice, a dict with that finding once, prose, and a list
RunResponses ==
    {DocOkText,
     FenceJsonLine \o <<NL>> \o DocTwiceText \o <<NL>> \o Fence,
     DocLowText,
     ProseLine,
     DocListText}

\* --language: a name, or None when the option is not given
Languages == {JsonStr("python"), JsonNull}

\* if not diff_content.strip()
NoChangesEmptyOnly(diff) == diff = <<>>

NoChanges(diff) == IsBlank(diff)

\* for i, chunk in enumerate(chunks), taken from the last chunk backwards
TurnChunkBackwards(cs, i) == cs[Len(cs) - i]

\* for i, chunk in enumerate(chunks): the chunk of turn i, counted from 0
TurnChunk(cs, i) == cs[i + 1]

\* merge_chunk_results(results) if len(results) > 1 else results[0]
FinalResults(rs) == IF Len(rs) > 1 THEN merge_chunk_results(rs) ELSE {rs[1]}

\* final_result['metadata'] = {...}
WithMetadata(final_result, language, n) ==
    [key \in DOMAIN final_result \cup {"metadata"} |->
        IF key = "metadata"
        THEN [language |-> language, strictness |-> "normal",
              rules_file |-> "rules.yaml", chunks_analyzed |-> n]
        ELSE final_result[key]]

\* a result that is not a dict makes lines 351-354 raise: merge_chunk_results
\* calls result.get on it, and main assigns final_result['metadata']
FinishRaises(rs) == \E k \in 1..Len(rs) : ~IsDict(rs[k])

InitRun ==
    /\ pc = "start"
    /\ diff_content = <<>>
    /\ max_tokens = DefaultMaxTokens
    /\ chunks = <<>>
    /\ sections = <<>>
    /\ include_files = <<>>
    /\ exclude_patterns = None
    /\ filtered = <<>>
    /\ results = <<>>
    /\ merged = None
    /\ remerged = None
    /\ RunIdle
    /\ ReportIdle

\* main on a diff without changes: lines 297-306
MainNoChanges ==
    /\ pc = "start"
    /\ \E diff \in RunDiffs :
          /\ NoChanges(diff)
          /\ diff_content' = diff
    /\ output' = Some(NoChangesResult)
    /\ pc' = "done"
    /\ UNCHANGED <<max_tokens, chunks, sections, include_files, exclude_patterns,
                   filtered, results, merged, remerged, responses, client,
                   queries, asked, reportVars>>

\* main up to the loop over the chunks: lines 297-338
MainChunks ==
    /\ pc = "start"
    /\ \E diff \in RunDiffs :
          /\ ~NoChanges(diff)
          /\ diff_content' = diff
          /\ chunks' = chunk_diff(diff, DefaultMaxTokens)
    /\ client' = TRUE
    /\ pc' = "analysing"
    /\ UNCHANGED <<max_tokens, sections, include_files, exclude_patterns,
                   filtered, results, merged, remerged, responses, queries,
                   asked, output, reportVars>>

\* one turn of the loop in which client.query returns a text
QueryReturns ==
    /\ pc = "analysing"
    /\ Len(results) < Len(chunks)
    /\ \E response \in RunResponses :
          /\ responses' = Append(responses, response)
          /\ results' = Append(results, analyze_with_llm(response))
    /\ queries' = queries + 1
    /\ asked' = Append(asked, TurnChunk(chunks, Len(results)))
    /\ UNCHANGED <<pc, diff_content, max_tokens, chunks, sections, include_files,
                   exclude_patterns, filtered, merged, remerged, client, output,
                   reportVars>>

\* one turn of the loop in which client.query raises: nothing catches the
\* exception, it leaves analyze_with_llm and main
QueryRaises ==
    /\ pc = "analysing"
    /\ Len(results) < Len(chunks)
    /\ queries' = queries + 1
    /\ asked' = Append(asked, TurnChunk(chunks, Len(results)))
    /\ pc' = "aborted"
    /\ UNCHANGED <<diff_content, max_tokens, chunks, sections, include_files,
                   exclude_patterns, filtered, results, merged, remerged,
                   responses, client, output, reportVars>>

\* main after the loop: lines 350-362
MainWrites ==
    /\ pc = "analysing"
    /\ Len(results) = Len(chunks)
    /\ Len(results) >= 1
    /\ ~FinishRaises(results)
    /\ \E language \in Languages, final_result \in FinalResults(results) :
          output' = Some(WithMetadata(final_result, language, Len(chunks)))
    /\ pc' = "done"
    /\ UNCHANGED <<diff_content, max_tokens, chunks, sections, include_files,
                   exclude_patterns, filtered, results, merged, remerged,
                   responses, client, queries, asked, reportVars>>

\* main after the loop when a result is not a dict
MainRaises ==
    /\ pc = "analysing"
    /\ Len(results) = Len(chunks)
    /\ FinishRaises(results)
    /\ pc' = "crashed"
    /\ UNCHANGED <<diff_content, max_tokens, chunks, sections, include_files,
                   exclude_patterns, filtered, results, merged, remerged,
                   responses, client, queries, asked, output, reportVars>>

\* format_review's main on a directory that holds the file main wrote
ReviewRun ==
    /\ pc = "done"
    /\ loaded' = load_all_results(<<[name |-> "result.json", data |-> output[1]]>>)
    /\ violations' = aggregate_violations(loaded')
    /\ summary' = Some(SummaryOf(violations'))
    /\ pc' = "reported"
    /\ UNCHANGED <<diff_content, max_tokens, chunks, sections, include_files,
                   exclude_patterns, filtered, results, merged, remerged, runVars>>

NextRun ==
    \/ MainNoChanges
    \/ MainChunks
    \/ QueryReturns
    \/ QueryRaises
    \/ MainWrites
    \/ MainRaises
    \/ ReviewRun

SpecRun == InitRun /\ [][NextRun]_vars

----------------------------------------------------------------------------
(* Properties of chunk_diff, checked under SpecChunk (any text),
   SpecGitChunk (the diffs git writes) and SpecPlainChunk (plain diffs) *)

Chunked == pc = "chunked"

Oversize == Len(diff_content) > max_chars(max_tokens)

\* the sections chunk_diff's loop works on: the pieces between the markers,
\* each but the first with its marker put back, a blank first piece left out
LoopSections ==
    LET file_diffs == Split(diff_content, GitMarker)
    IN  [i \in {j \in 1..Len(file_diffs) : j > 1 \/ ~IsBlank(file_diffs[j])} |->
            IF i > 1 THEN GitMarker \o file_diffs[i] ELSE file_diffs[i]]

\* the first line of a text
FirstLine(text) == Split(text, <<NL>>)[1]

\* C1: concatenating the chunks chunk_diff returns, in order and with no
\* separator, gives back the diff text exactly.
C1_ChunkReconstruction == Chunked => Concat(chunks) = diff_content

\* C2: every chunk is at most max_tokens * 4 characters long, unless it is
\* made of exactly one section that is itself longer than that.
C2_SizeBound ==
    Chunked =>
        \A k \in 1..Len(chunks) :
            \/ Len(chunks[k]) <= max_chars(max_tokens)
            \/ /\ Len(chunk_groups(diff_content, max_tokens)[k]) = 1
               /\ Len(chunk_groups(diff_content, max_tokens)[k][1])
                      > max_chars(max_tokens)

\* C3: when the diff is longer than the bound, every chunk after the first
\* starts with a file-header line, and the text of every section that
\* parse_diff_sections finds lies within one chunk.
C3_NoSectionSplit ==
    (Chunked /\ Oversize) =>
        /\ \A k \in 2..Len(chunks) : IsHeader(FirstLine(chunks[k]))
        /\ \A n \in 1..Len(parse_diff_sections(diff_content)) :
               \E k \in 1..Len(chunks) :
                   Contains(chunks[k], parse_diff_sections(diff_content)[n].content)

C5_SmallDiffPassthrough ==
    (Chunked /\ ~Oversize) => chunks = <<diff_content>>

\* a diff of exactly the bound's length that holds two file headers
C5_Witness ==
    /\ Chunked
    /\ Len(diff_content) = max_chars(max_tokens)
    /\ Len(parse_diff_sections(diff_content)) >= 2
    /\ chunks = <<diff_content>>

\* C6: a text without any file header that is longer than the bound comes
\* back as the one chunk, unchanged.
C6_NoHeaderFallback ==
    (Chunked /\ Oversize /\ parse_diff_sections(diff_content) = <<>>) =>
        chunks = <<diff_content>>

----------------------------------------------------------------------------
(* Properties of parse_diff_sections and filter_diff, checked under SpecFilter *)

Parsed == pc = "parsed"

DiffLines == Split(diff_content, <<NL>>)

\* the numbers of the lines that are file headers
HeaderLines == {i \in 1..Len(DiffLines) : IsHeader(DiffLines[i])}

\* the header line and the lines after it, up to the next header line
Block(i) ==
    LET later == {j \in HeaderLines : j > i}
        stop == IF later = {} THEN Len(DiffLines) + 1 ELSE Min(later)
    IN  Join(SubSeq(DiffLines, i, stop - 1), <<NL>>)

\* the n-th header line
NthHeader(n) ==
    CHOOSE i \in HeaderLines : Cardinality({j \in HeaderLines : j < i}) = n - 1

HeaderPaths == {HeaderPath(DiffLines[i]) : i \in HeaderLines}

FirstHeaderOf(path) == Min({i \in HeaderLines : HeaderPath(DiffLines[i]) = path})

LastHeaderOf(path) ==
    CHOOSE i \in HeaderLines :
        /\ HeaderPath(DiffLines[i]) = path
        /\ \A j \in HeaderLines : HeaderPath(DiffLines[j]) = path => j <= i

\* C7 as stated: one section per file-header line, in the order of the header
\* lines; the section's path is the header's b/ path, its text the header line
\* and the lines up to the next header line.
C7_OneSectionPerHeader ==
    Parsed =>
        /\ Len(sections) = Cardinality(HeaderLines)
        /\ \A n \in 1..Len(sections) :
              /\ sections[n].path = HeaderPath(DiffLines[NthHeader(n)])
              /\ sections[n].content = Block(NthHeader(n))

\* C7 as amended: one section per distinct header path, in the order in which
\* the paths first appear; the section's text is the header line and the lines
\* up to the next header line of the last header that names the path.
C7_OneSectionPerPath ==
    Parsed =>
        /\ Len(sections) = Cardinality(HeaderPaths)
        /\ {sections[n].path : n \in 1..Len(sections)} = HeaderPaths
        /\ \A n, m \in 1..Len(sections) :
              n < m => FirstHeaderOf(sections[n].path) < FirstHeaderOf(sections[m].path)
        /\ \A n \in 1..Len(sections) :
              sections[n].content = Block(LastHeaderOf(sections[n].path))

\* a diff in which two header lines name the same path, with different text
\* under them, and a header of another path, has been parsed
C7_Witness ==
    /\ Parsed
    /\ Len(sections) >= 2
    /\ \E i, j \in HeaderLines :
          /\ i < j
          /\ HeaderPath(DiffLines[i]) = HeaderPath(DiffLines[j])
          /\ Block(i) # Block(j)

\* the include set of C8: the entries as written and without leading slashes
C8_IncludeSet ==
    {include_files[k] : k \in 1..Len(include_files)}
        \cup {LStripSlash(include_files[k]) : k \in 1..Len(include_files)}

\* a path C8 retains
C8_Retained(path) ==
    /\ path \in C8_IncludeSet \/ LStripSlash(path) \in C8_IncludeSet
    /\ \/ exclude_patterns = None
       \/ \A k \in 1..Len(exclude_patterns[1]) :
              ~Contains(path, exclude_patterns[1][k])

C8_RetainedSections == SelectSeq(sections, LAMBDA sec : C8_Retained(sec.path))

\* C8: filter_diff returns the sections whose path is in the include set, as
\* written or without leading slashes, and matches no exclude pattern, in the
\* order parse_diff_sections gives them, joined by newlines.
C8_FilterRetains ==
    pc = "filtered" =>
        filtered = Join([n \in 1..Len(C8_RetainedSections) |->
                            C8_RetainedSections[n].content], <<NL>>)

\* two sections are retained, one of them only because leading slashes are
\* removed, in the order of the diff and not that of the include list
C8_Witness ==
    /\ pc = "filtered"
    /\ Len(C8_RetainedSections) = 2
    /\ Len(include_files) = 2
    /\ LStripSlash(C8_RetainedSections[2].path) = include_files[1]
    /\ C8_RetainedSections[2].path
           \notin {include_files[k] : k \in 1..Len(include_files)}

----------------------------------------------------------------------------
(* Properties of merge_chunk_results, checked under SpecMerge *)

Merged == pc \in {"merged", "remerged"}

\* the identity of a violation: its file, line and rule_id, None where missing
C9_Triple(v) ==
    <<IF "file" \in DOMAIN v THEN <<v.file>> ELSE <<>>,
      IF "line" \in DOMAIN v THEN <<v.line>> ELSE <<>>,
      IF "rule_id" \in DOMAIN v THEN <<v.rule_id>> ELSE <<>> >>

\* the violations of the results without an error key, in encounter order
RECURSIVE C9_EncounterFrom(_)
C9_EncounterFrom(k) ==
    IF k > Len(results) THEN <<>>
    ELSE (IF "error" \in DOMAIN results[k] \/ "violations" \notin DOMAIN results[k]
          THEN <<>> ELSE results[k].violations) \o C9_EncounterFrom(k + 1)

C9_Encounter == C9_EncounterFrom(1)

\* the places in encounter order where a triple shows up for the first time
C9_FirstPlaces ==
    {p \in 1..Len(C9_Encounter) :
        \A q \in 1..(p - 1) : C9_Triple(C9_Encounter[q]) # C9_Triple(C9_Encounter[p])}

C9_NthFirstPlace(n) ==
    CHOOSE p \in C9_FirstPlaces : Cardinality({q \in C9_FirstPlaces : q < p}) = n - 1

\* C9: the merged violations hold no two violations with the same triple, and
\* they are exactly the first instance of every triple of the non-error
\* results, in encounter order.
C9_DedupFirstWins ==
    Merged =>
        /\ \A i, j \in 1..Len(merged.violations) :
              i # j => C9_Triple(merged.violations[i]) # C9_Triple(merged.violations[j])
        /\ Len(merged.violations) = Cardinality(C9_FirstPlaces)
        /\ \A n \in 1..Len(merged.violations) :
              merged.violations[n] = C9_Encounter[C9_NthFirstPlace(n)]

\* two results report the same triple with different wording, and the later
\* instance has been dropped
C9_Witness ==
    /\ Merged
    /\ Len(results) = 2
    /\ \E p, q \in 1..Len(C9_Encounter) :
          /\ p < q
          /\ C9_Triple(C9_Encounter[p]) = C9_Triple(C9_Encounter[q])
          /\ C9_Encounter[p] # C9_Encounter[q]
    /\ Len(merged.violations) >= 2
    /\ Len(merged.violations) < Len(C9_Encounter)

\* C10: merging the merged result with itself gives the violations of the
\* merged result, the same instances in the same order.
C10_DedupIdempotent ==
    pc = "remerged" => remerged.violations = merged.violations

\* the first merge dropped a duplicate, and its result has been merged with
\* itself
C10_Witness ==
    /\ pc = "remerged"
    /\ Len(merged.violations) >= 2
    /\ Len(merged.violations) < Len(C9_Encounter)
    /\ remerged.violations = merged.violations

----------------------------------------------------------------------------
(* Error results in merge_chunk_results, checked under SpecMerge *)

\* the results that carry no error key, in input order
RECURSIVE C11_NonErrorFrom(_)
C11_NonErrorFrom(k) ==
    IF k > Len(results) THEN <<>>
    ELSE (IF "error" \in DOMAIN results[k] THEN <<>> ELSE <<results[k]>>)
             \o C11_NonErrorFrom(k + 1)

C11_NonError == C11_NonErrorFrom(1)

\* the sum of a metric over the non-error results, 0 where it is missing
RECURSIVE C11_SumFrom(_, _)
C11_SumFrom(k, field) ==
    IF k > Len(C11_NonError) THEN 0
    ELSE (IF "metrics" \in DOMAIN C11_NonError[k]
              /\ field \in DOMAIN C11_NonError[k].metrics
          THEN C11_NonError[k].metrics[field] ELSE 0) + C11_SumFrom(k + 1, field)

\* the summaries of the non-error results joined by single spaces
RECURSIVE C11_SummaryFrom(_)
C11_SummaryFrom(k) ==
    (IF "summary" \in DOMAIN C11_NonError[k] THEN C11_NonError[k].summary ELSE "")
        \o (IF k = Len(C11_NonError) THEN "" ELSE " " \o C11_SummaryFrom(k + 1))

\* the entries of a list field over the non-error results
C11_Entries(field) ==
    UNION {{C11_NonError[k][field][j] : j \in 1..Len(C11_NonError[k][field])} :
              k \in {i \in 1..Len(C11_NonError) : field \in DOMAIN C11_NonError[i]}}

\* C11: a result with an error key takes no part in the merge: the merged
\* files_analyzed and total_lines are the sums over the non-error results, the
\* merged summary is made of their summaries alone, and every merged
\* violation, passed check and recommendation comes from one of them.
C11_ErrorResultsExcluded ==
    pc = "merged" =>
        /\ merged.metrics.files_analyzed = C11_SumFrom(1, "files_analyzed")
        /\ merged.metrics.total_lines = C11_SumFrom(1, "total_lines")
        /\ C11_NonError # <<>> => merged.summary = C11_SummaryFrom(1)
        /\ \A i \in 1..Len(merged.violations) :
              merged.violations[i] \in C11_Entries("violations")
        /\ {merged.passed_checks[i] : i \in 1..Len(merged.passed_checks)}
              = C11_Entries("passed_checks")
        /\ {merged.recommendations[i] : i \in 1..Len(merged.recommendations)}
              = C11_Entries("recommendations")

\* a result with an error key, a summary, a violation, a passed check, a
\* recommendation and metrics of its own has been merged with a result without
\* an error key, and only the latter shows in the merged result
C11_Witness ==
    /\ pc = "merged"
    /\ Len(results) = 2
    /\ results[1] = ErrorWithViolations
    /\ "error" \notin DOMAIN results[2]
    /\ "metrics" \in DOMAIN results[2]
    /\ merged.metrics.total_lines = 10
    /\ merged.summary = "ok"
    /\ merged.passed_checks = <<"R2">>

\* C12: when every result carries an error key, or the list is empty, the
\* merged result has the summary "Analysis complete.", no violations and no
\* error key.
C12_AllErrorsMerge ==
    (pc = "merged" /\ C11_NonError = <<>>) =>
        /\ merged.summary = "Analysis complete."
        /\ merged.violations = <<>>
        /\ "error" \notin DOMAIN merged

\* two results with error keys, one of them with violations, have been merged
C12_Witness ==
    /\ pc = "merged"
    /\ Len(results) = 2
    /\ results[1] = ErrorWithViolations
    /\ results[2] = ParseErrorResult
    /\ merged.summary = "Analysis complete."

----------------------------------------------------------------------------
(* Properties of format_review's main, checked under SpecReport *)

Reported == pc = "reported" /\ loaded # <<>>

\* the findings handed to aggregate_violations, each with the name of its
\* result file: result by result, and by position within a result
RECURSIVE C13_InputsFrom(_)
C13_InputsFrom(k) ==
    IF k > Len(loaded) THEN <<>>
    ELSE [j \in 1..Len(loaded[k].violations) |->
             <<loaded[k]["_source_file"], loaded[k].violations[j]>>]
         \o C13_InputsFrom(k + 1)

C13_Inputs == C13_InputsFrom(1)

\* the findings of the report, each with its source and without the two tags
C13_Outputs ==
    [i \in 1..Len(violations) |->
        <<violations[i]["_source"],
          [key \in DOMAIN violations[i] \ {"_source", "_language"} |->
              violations[i][key]]>>]

\* the rank of a finding: 0 for critical to 4 for info, whatever the case of
\* the letters, and 5 for any other severity; a finding without a severity
\* ranks as medium
C13_Rank(v) ==
    LET sev == IF "severity" \in DOMAIN v THEN Lower(v.severity) ELSE SevMedium
    IN  CASE sev = SevCritical -> 0
          [] sev = SevHigh -> 1
          [] sev = SevMedium -> 2
          [] sev = SevLow -> 3
          [] sev = SevInfo -> 4
          [] OTHER -> 5

C13_OfRank(pairs, r) == SelectSeq(pairs, LAMBDA p : C13_Rank(p[2]) = r)

\* C13: the report holds the input findings, each once, in the order of
\* their ranks, and the findings of one rank stand in their input order.
C13_SeverityOrder ==
    Reported =>
        /\ Len(violations) = Len(C13_Inputs)
        /\ \A i, j \in 1..Len(violations) :
              i < j => C13_Rank(violations[i]) <= C13_Rank(violations[j])
        /\ \A r \in 0..5 : C13_OfRank(C13_Outputs, r) = C13_OfRank(C13_Inputs, r)

\* eight findings of two files, given from the lowest severity to the
\* highest, stand in the report from critical to the unknown severity, and
\* the two high ones, "High" and "high", in their input order
C13_Witness ==
    /\ Reported
    /\ Len(loaded) = 2
    /\ Len(loaded[1].violations) = 4
    /\ Len(violations) = 8
    /\ C13_Inputs[1][2].severity = SevBlocker
    /\ violations[1].severity = SevCritical
    /\ violations[2].severity = SevMixedCase
    /\ violations[3].severity = SevHigh
    /\ violations[8].severity = SevBlocker

\* C14: max_severity is "none" exactly when the report has no finding, and
\* otherwise it is the severity of one of the findings (in small letters,
\* medium for a finding without a severity) that none of the others outranks.
C14_MaxSeverityOccurs ==
    Reported =>
        /\ summary[1].max_severity = SevNone <=> violations = <<>>
        /\ violations # <<>> =>
              \E i \in 1..Len(violations) :
                  /\ summary[1].max_severity
                        = (IF "severity" \in DOMAIN violations[i]
                           THEN Lower(violations[i].severity) ELSE SevMedium)
                  /\ \A j \in 1..Len(violations) :
                        C13_Rank(violations[i]) <= C13_Rank(violations[j])

\* a line value that reads as a positive integer
C15_PositiveLine(line) ==
    \/ "int" \in DOMAIN line /\ line.int > 0
    \/ /\ "str" \in DOMAIN line
       /\ IsDigitText(line.str)
       /\ IntOfDigits(line.str) > 0

\* the findings of the report with a non-empty file and such a line
C15_Eligible ==
    SelectSeq(violations,
              LAMBDA v : /\ "file" \in DOMAIN v
                         /\ v.file # ""
                         /\ "line" \in DOMAIN v
                         /\ C15_PositiveLine(v.line))

\* C15: the inline comments of the summary are the first MaxInlineComments
\* findings that have a non-empty file and a line that reads as a positive
\* integer, in report order, each at its file and line.
C15_InlineComments ==
    Reported =>
        /\ Len(summary[1].inline_comments)
              = Min({MaxInlineComments, Len(C15_Eligible)})
        /\ \A n \in 1..Len(summary[1].inline_comments) :
              /\ n <= Len(C15_Eligible)
              /\ summary[1].inline_comments[n].path = C15_Eligible[n].file
              /\ C15_PositiveLine(JsonInt(summary[1].inline_comments[n].line))

----------------------------------------------------------------------------
(* Properties of analyze_with_llm, checked under SpecAnalyze *)

Analysed == pc = "analysed"

\* C16: when the text left of the response after stripping and taking the
\* fences off is not JSON, the result has an error key, no violations, the
\* fixed failure summary, and as raw_response the first RawExcerptLength
\* characters of the response as it came (all of it when it is shorter).
C16_ParseFailureResult ==
    (Analysed /\ json_loads(ResponseText(responses[1])) = None) =>
        /\ "error" \in DOMAIN results[1]
        /\ results[1].violations = <<>>
        /\ results[1].summary = "Analysis failed due to response parsing error"
        /\ Len(results[1].raw_response) <= RawExcerptLength
        /\ Len(results[1].raw_response) <= Len(responses[1])
        /\ Len(results[1].raw_response) < RawExcerptLength
              => Len(results[1].raw_response) = Len(responses[1])
        /\ \A i \in 1..Len(results[1].raw_response) :
              results[1].raw_response[i] = responses[1][i]

\* a response of more than RawExcerptLength characters that begins with a
\* newline and is not JSON has been cut to its first RawExcerptLength
\* characters, the newline included
C16_Witness ==
    /\ Analysed
    /\ Len(responses[1]) > RawExcerptLength
    /\ responses[1][1] = NL
    /\ "error" \in DOMAIN results[1]
    /\ Len(results[1].raw_response) = RawExcerptLength
    /\ results[1].raw_response[1] = NL

\* C17: whatever text the endpoint returns, analyze_with_llm returns a dict
\* with a summary and a list of violations.
C17_AlwaysAnalysisResult ==
    Analysed =>
        /\ IsDict(results[1])
        /\ "summary" \in DOMAIN results[1]
        /\ "violations" \in DOMAIN results[1]

----------------------------------------------------------------------------
(* Properties of a run of analyze_code's main, checked under SpecRun *)

\* C18: a call of client.query that raises does not end the run: every call
\* made so far, the failed ones included, has left a result in the list.
C18_QueryFailureContained ==
    /\ pc # "aborted"
    /\ Len(results) = queries

\* C19: once main has read a diff that is empty or all whitespace, the run is
\* over with the fixed result written: no violations, the summary "No changes
\* to analyze", no client created and client.query never called.
C19_NoChangesRun ==
    (pc # "start" /\ \A i \in 1..Len(diff_content) : IsSpace(diff_content[i])) =>
        /\ pc \in {"done", "reported"}
        /\ output = <<[summary |-> "No changes to analyze", violations |-> <<>>]>>
        /\ client = FALSE
        /\ queries = 0
        /\ responses = <<>>
        /\ results = <<>>

\* a diff of blank lines has been read and the fixed result written
C19_Witness ==
    /\ pc = "done"
    /\ diff_content = BlankLines
    /\ output = <<NoChangesResult>>
    /\ queries = 0

\* C20: no two violations of the report have the same file, line and rule_id.
C20_ReportDeduplicated ==
    pc = "reported" =>
        \A i, j \in 1..Len(violations) :
            i # j => C9_Triple(violations[i]) # C9_Triple(violations[j])

----------------------------------------------------------------------------
(* Provenance of the findings of the report, checked under SpecReport *)

\* the language of a result: the text its metadata records, and "common"
\* when it has no metadata, no language, or a null one
C21_LanguageOrCommon(result) ==
    IF /\ "metadata" \in DOMAIN result
       /\ "language" \in DOMAIN result.metadata
       /\ "str" \in DOMAIN result.metadata.language
    THEN result.metadata.language
    ELSE JsonStr("common")

\* C21: every finding of the report carries as _source the name of a loaded
\* result that holds it, and as _language the language of that result,
\* "common" when the result has none.
C21_ProvenanceTags ==
    Reported =>
        \A i \in 1..Len(violations) :
            /\ "_source" \in DOMAIN violations[i]
            /\ "_language" \in DOMAIN violations[i]
            /\ \E k \in 1..Len(loaded) :
                  /\ violations[i]["_source"] = loaded[k]["_source_file"]
                  /\ \E j \in 1..Len(loaded[k].violations) :
                        C13_Outputs[i][2] = loaded[k].violations[j]
                  /\ violations[i]["_language"] = C21_LanguageOrCommon(loaded[k])

\* the same for the results whose metadata does not record a null language
C21_TagsUnlessNull ==
    (Reported /\ \A k \in 1..Len(loaded) :
                    LanguageOf(loaded[k]) # JsonNull) => C21_ProvenanceTags

\* a finding of a result without metadata is in the report as "common"
C21_BareWitness ==
    /\ Reported
    /\ Len(loaded) = 1
    /\ "metadata" \notin DOMAIN loaded[1]
    /\ Len(violations) = 2
    /\ violations[1]["_language"] = JsonStr("common")

----------------------------------------------------------------------------
(* Runs with results of both kinds, checked under SpecRun *)

\* the places of the results that are dicts without an error key, and of the
\* results with one
C22_NonErrorPlaces ==
    {k \in 1..Len(results) : IsDict(results[k]) /\ "error" \notin DOMAIN results[k]}

C22_ErrorPlaces ==
    {k \in 1..Len(results) : IsDict(results[k]) /\ "error" \in DOMAIN results[k]}

C22_Mixed == C22_NonErrorPlaces # {} /\ C22_ErrorPlaces # {}

\* the summaries of the results at the places from k on, joined by spaces
RECURSIVE C22_SummaryFrom(_)
C22_SummaryFrom(k) ==
    IF k > Len(results) THEN ""
    ELSE IF k \notin C22_NonErrorPlaces THEN C22_SummaryFrom(k + 1)
    ELSE results[k].summary
         \o (IF \E n \in C22_NonErrorPlaces : n > k
             THEN " " \o C22_SummaryFrom(k + 1) ELSE "")

\* the final result holds, for every violation of a non-error result, a
\* violation of the same file, line and rule_id, and its summary is made of
\* the summaries of the non-error results
C22_FinalHoldsAll ==
    /\ output # None
    /\ \A k \in C22_NonErrorPlaces :
          \A j \in 1..Len(results[k].violations) :
              \E i \in 1..Len(output[1].violations) :
                  C9_Triple(output[1].violations[i])
                      = C9_Triple(results[k].violations[j])
    /\ output[1].summary = C22_SummaryFrom(1)

\* C22: a run that is over and whose chunks gave at least one non-error
\* result and at least one error result has written a final result that
\* holds every violation of every non-error result, up to duplicates of the
\* same file, line and rule_id, and the summaries of the non-error results.
C22_PartialSuccess ==
    (pc \notin {"start", "analysing"} /\ C22_Mixed) => C22_FinalHoldsAll

\* the same for the runs that have written a result
C22_WrittenRuns ==
    (pc \in {"done", "reported"} /\ C22_Mixed) => C22_FinalHoldsAll

\* a run of three chunks with an error result between two non-error results
\* has written the violation of the first and both summaries
C22_WrittenWitness ==
    /\ pc = "done"
    /\ Len(results) = 3
    /\ C22_ErrorPlaces = {2}
    /\ results[1] = DocTwice
    /\ results[3] = DocOk
    /\ Len(output[1].violations) = 1
    /\ output[1].summary = "two ok"

\* a violation without its provenance fields
C23_Untagged(v) == [key \in DOMAIN v \ {"_source", "_language"} |-> v[key]]

\* how often a violation stands in a list
C23_Count(vs, v) == Cardinality({i \in 1..Len(vs) : vs[i] = v})

\* C23: when main has written its result, every result of the run is still
\* what analyze_with_llm returned and every violation of the final result is a
\* violation of one of them, field by field; and when the report is made,
\* its violations are those of the final result, each as often, with the
\* fields _source and _language set and no other field added, dropped or
\* changed.
C23_OnlyProvenanceAdded ==
    /\ (pc \in {"done", "reported"} /\ queries > 0) =>
          /\ \A k \in 1..Len(results) :
                results[k] = analyze_with_llm(responses[k])
          /\ \A i \in 1..Len(output[1].violations) :
                \E k \in 1..Len(results) :
                    \E j \in 1..Len(results[k].violations) :
                        results[k].violations[j] = output[1].violations[i]
    /\ pc = "reported" =>
          /\ Len(violations) = Len(output[1].violations)
          /\ \A i \in 1..Len(violations) :
                /\ DOMAIN violations[i]
                      = DOMAIN C23_Untagged(violations[i]) \cup {"_source", "_language"}
                /\ C23_Count(output[1].violations, C23_Untagged(violations[i]))
                      = C23_Count([n \in 1..Len(violations) |->
                                      C23_Untagged(violations[n])],
                                  C23_Untagged(violations[i]))

\* a run of two chunks, the second with two violations of different
\* severities, has been merged and reported: the one violation kept has its
\* severity as it came and both tags
C23_Witness ==
    /\ pc = "reported"
    /\ Len(results) = 2
    /\ results[2] = DocTwice
    /\ Len(violations) = 1
    /\ violations[1].severity = SevHigh
    /\ violations[1]["_source"] = "result.json"
    /\ C23_Untagged(violations[1]) = results[2].violations[1]

\* the first result, in the order of the list, that is a dict without an
\* error key and has a violation of the file, line and rule_id of v
C24_EarliestPlace(v) ==
    Min({k \in C22_NonErrorPlaces :
            \E j \in 1..Len(results[k].violations) :
                C9_Triple(results[k].violations[j]) = C9_Triple(v)})

\* the first violation of that file, line and rule_id in result k
C24_FirstIn(k, v) ==
    results[k].violations[
        Min({j \in 1..Len(results[k].violations) :
                C9_Triple(results[k].violations[j]) = C9_Triple(v)})]

\* C24: client.query is called with the chunks in their order, each once:
\* the calls made so far were made with the first chunks of the list, one
\* call per chunk, and when the loop is over every chunk has had its call.
\* The k-th result is made of the answer to the k-th call, and of the
\* violations of one file, line and rule_id the merged result of several
\* chunks keeps the one of the earliest chunk.
C24_InChunkOrder ==
    /\ queries = Len(asked)
    /\ Len(asked) <= Len(chunks)
    /\ \A k \in 1..Len(asked) : asked[k] = chunks[k]
    /\ Len(results) = Len(responses)
    /\ \A k \in 1..Len(results) : results[k] = analyze_with_llm(responses[k])
    /\ (pc \in {"done", "reported", "crashed"} /\ ~IsBlank(diff_content)) =>
          /\ chunks # <<>>
          /\ asked = chunks
          /\ Len(results) = Len(chunks)
    /\ (pc \in {"done", "reported"} /\ Len(results) > 1) =>
          \A i \in 1..Len(output[1].violations) :
              output[1].violations[i]
                  = C24_FirstIn(C24_EarliestPlace(output[1].violations[i]),
                                output[1].violations[i])

\* a run of two different chunks: the first answer has a violation with the
\* severity low, the second the same violation with the severity high, and
\* the final result keeps the low one
C24_Witness ==
    /\ pc = "done"
    /\ Len(chunks) = 2
    /\ chunks[1] # chunks[2]
    /\ asked = chunks
    /\ results = <<DocLow, DocTwice>>
    /\ Len(output[1].violations) = 1
    /\ output[1].violations[1].severity = SevLow

----------------------------------------------------------------------------
(* The fences of a response, checked under SpecAnalyze *)

\* the place of the first newline of a text, and one past its end when it
\* has none
C25_FirstBreak(t) ==
    Min({i \in 1..Len(t) : t[i] = NL} \cup {Len(t) + 1})

\* the places behind the first line where a line begins with a fence
C25_FenceStarts(t) ==
    {q \in (C25_FirstBreak(t) + 1)..Len(t) :
        /\ t[q - 1] = NL
        /\ q + 2 <= Len(t)
        /\ t[q] = Backquote /\ t[q + 1] = Backquote /\ t[q + 2] = Backquote}

\* the text between the first line of t and the next line that begins with
\* a fence, without the newlines at its two ends; up to the end of t when no
\* such line follows
C25_Between(t) ==
    LET starts == C25_FenceStarts(t)
    IN  IF starts = {}
        THEN SubSeq(t, C25_FirstBreak(t) + 1, Len(t))
        ELSE SubSeq(t, C25_FirstBreak(t) + 1, Min(starts) - 2)

\* the payload of a response: what is between the fences when the trimmed
\* response begins with a fence, and the trimmed response otherwise
C25_Payload(response) ==
    LET t == Strip(response)
    IN  IF Len(t) >= 3 /\ \A i \in 1..3 : t[i] = Backquote
        THEN C25_Between(t)
        ELSE t

\* C25: the text handed to json.loads is the payload of the response, and
\* the result is the value of the payload when it is JSON and a parse failure
\* when it is not.
C25_FenceStripping ==
    Analysed =>
        LET payload == C25_Payload(responses[1])
        IN  /\ ResponseText(responses[1]) = payload
            /\ json_loads(payload) # None => results[1] = json_loads(payload)[1]
            /\ json_loads(payload) = None => "error" \in DOMAIN results[1]

\* a response of four lines, a fence with a language, a JSON dict, a line
\* with a fence behind a blank, and prose, has the last three lines as its
\* payload and gives a parse failure
C25_IndentedWitness ==
    /\ Analysed
    /\ responses[1]
          = Join(<<FenceJsonLine, DocOkText, IndentedFence, ProseLine>>, <<NL>>)
    /\ "error" \in DOMAIN results[1]

\* a response of four lines, a fence with a language, a JSON dict, a fence
\* and prose, has given the dict
C25_Witness ==
    /\ Analysed
    /\ responses[1] = Join(<<FenceJsonLine, DocOkText, Fence, ProseLine>>, <<NL>>)
    /\ C25_Payload(responses[1]) = DocOkText
    /\ results[1] = DocOk

----------------------------------------------------------------------------
(* The counts of the summary, checked under SpecReport *)

\* the sum of the values of a dict of counts
RECURSIVE C26_SumOver(_, _)
C26_SumOver(counts, keys) ==
    IF keys = {} THEN 0
    ELSE LET key == CHOOSE k \in keys : TRUE
         IN  counts[key] + C26_SumOver(counts, keys \ {key})

\* the sum of the counts of a field of the summary, 0 when the summary has
\* no such field
C26_Total(field) ==
    IF field \in DOMAIN summary[1]
    THEN C26_SumOver(summary[1][field], DOMAIN summary[1][field])
    ELSE 0

\* C26: in the summary main has written, total_violations is the number of
\* violations of the report, the counts of by_severity and those of
\* by_language each sum to it, has_violations is true exactly when it is
\* positive, max_severity is "none" exactly when it is 0, and there are no
\* more inline comments than violations.
C26_SummaryCounts ==
    pc = "reported" =>
        /\ summary[1].total_violations = Len(violations)
        /\ C26_Total("by_severity") = summary[1].total_violations
        /\ C26_Total("by_language") = summary[1].total_violations
        /\ summary[1].has_violations <=> summary[1].total_violations > 0
        /\ summary[1].max_severity = SevNone <=> summary[1].total_violations = 0
        /\ Len(summary[1].inline_comments) <= summary[1].total_violations

\* a report of eight violations of two results, two of them counted as
\* medium, one for having no severity, under two languages
C26_Witness ==
    /\ Reported
    /\ summary[1].total_violations = 8
    /\ summary[1].by_severity[SevMedium] = 2
    /\ Cardinality(DOMAIN summary[1].by_severity) = 7
    /\ Cardinality(DOMAIN summary[1].by_language) = 2
    /\ \A key \in DOMAIN summary[1].by_language : summary[1].by_language[key] = 4

\* a report of more violations than main keeps inline comments
C26_ManyWitness ==
    /\ Reported
    /\ summary[1].total_violations = MaxInlineComments + 1
    /\ Len(summary[1].inline_comments) = MaxInlineComments

====
